---- MODULE Spec2Model ----
(***************************************************************************)
(* Model of supervik/crypto-exchanges-latencies-test.                      *)
(*                                                                         *)
(* The repository holds two independent programs:                          *)
(*   src/ping_url.py        a command-line utility that times n HTTP GETs  *)
(*                          (specification SpecPing)                       *)
(*   src/latencies_test.py  a hummingbot script strategy that places and   *)
(*                          cancels orders and logs lifecycle rows to a    *)
(*                          CSV file (specification SpecStrategy)          *)
(***************************************************************************)
EXTENDS Integers, Sequences, FiniteSets, TLC

(***************************************************************************)
(* Bounds of the model (not program constants).                            *)
(***************************************************************************)
\* largest attempt count n handed to get_response_times_using_time
MaxN == 3
\* largest len(sys.argv) (the program name counts as one)
MaxArgc == 3
\* largest measured duration of one request, in milliseconds
MaxDur == 2

(***************************************************************************)
(* Generic helpers.                                                        *)
(***************************************************************************)
RECURSIVE SumSeq(_)
SumSeq(s) == IF s = <<>> THEN 0 ELSE Head(s) + SumSeq(Tail(s))

RECURSIVE Insert(_, _)
Insert(x, s) ==
    IF s = <<>> THEN <<x>>
    ELSE IF x <= Head(s) THEN <<x>> \o s
    ELSE <<Head(s)>> \o Insert(x, Tail(s))

RECURSIVE Sorted(_)
Sorted(s) == IF s = <<>> THEN <<>> ELSE Insert(Head(s), Sorted(Tail(s)))

(***************************************************************************)
(* Python floats. A float is an IEEE-754 binary64 number, kept here as     *)
(* [m, e]: its 53-bit significand m and the exponent e of the last bit, so *)
(* that its value is m * 2^e. The significand is written in five digits,   *)
(* most significant first: the leading bit and four digits of 13 bits.     *)
(* Zero is five zero digits. Every operation rounds its exact result to    *)
(* 53 bits, ties to even, as the hardware does; the numbers are positive   *)
(* and far from the ends of the exponent range.                            *)
(***************************************************************************)
Limb == 2^13

\* bit k (0: the last one) of the number with digits D
Bit(D, k) ==
    IF k >= 52
    THEN (IF k - 52 > 12 THEN 0 ELSE (D[1] \div 2^(k - 52)) % 2)
    ELSE (D[5 - (k \div 13)] \div 2^(k % 13)) % 2

\* the number of bits of v, 1 <= v < 2^13
BitLength(v) == CHOOSE l \in 1..13 : 2^(l - 1) <= v /\ v < 2^l

\* the digits D plus one in digit j
RECURSIVE IncrAt(_, _)
IncrAt(D, j) ==
    IF j = 1 \/ D[j] + 1 < Limb THEN [D EXCEPT ![j] = @ + 1]
    ELSE IncrAt([D EXCEPT ![j] = 0], j - 1)

\* the significand D plus one unit in the last place
RoundUp(D, e) ==
    LET r == IncrAt(D, 5)
    IN  IF r[1] = 2 THEN [m |-> <<1, 0, 0, 0, 0>>, e |-> e + 1]
        ELSE [m |-> r, e |-> e]

\* the number P * 2^e, whose leading digit may have several bits, rounded to
\* 53 bits, ties to even
Round53(P, e) ==
    LET s == BitLength(P[1]) - 1
        shifted == [j \in 1..5 |->
                       (P[j] \div 2^s)
                       + (IF j > 1 THEN (P[j - 1] % 2^s) * 2^(13 - s) ELSE 0)]
        dropped == P[5] % 2^s
    IN  IF s = 0 THEN [m |-> P, e |-> e]
        ELSE IF \/ 2 * dropped > 2^s
                \/ 2 * dropped = 2^s /\ shifted[5] % 2 = 1
        THEN RoundUp(shifted, e + s)
        ELSE [m |-> shifted, e |-> e + s]

\* scale a or b by a power of two until b <= a < 2b; k counts the doublings
\* of b less those of a
RECURSIVE Normalised(_, _, _)
Normalised(a, b, k) ==
    IF a >= 2 * b THEN Normalised(a, 2 * b, k + 1)
    ELSE IF a < b THEN Normalised(2 * a, b, k - 1)
    ELSE [a |-> a, b |-> b, k |-> k]

\* the next k digits of the quotient r/b (r < b), and the remainder left
RECURSIVE DivDigits(_, _, _)
DivDigits(r, b, k) ==
    IF k = 0 THEN [digits |-> <<>>, r |-> r]
    ELSE LET rest == DivDigits((r * Limb) % b, b, k - 1)
         IN  [digits |-> <<(r * Limb) \div b>> \o rest.digits, r |-> rest.r]

\* a / b for integers a >= 0, b > 0: the float nearest to the quotient
FloatDiv(a, b) ==
    IF a = 0 THEN [m |-> <<0, 0, 0, 0, 0>>, e |-> 0]
    ELSE LET nz == Normalised(a, b, 0)
             d == DivDigits(nz.a - nz.b, nz.b, 4)
             D == <<1>> \o d.digits
         IN  IF 2 * d.r > nz.b \/ (2 * d.r = nz.b /\ D[5] % 2 = 1)
             THEN RoundUp(D, nz.k - 52)
             ELSE [m |-> D, e |-> nz.k - 52]

\* the digits of D * c + carry * Limb^(5 - j), the product taken from digit j
\* upwards; the leading digit takes what is carried into it
RECURSIVE TimesFrom(_, _, _, _)
TimesFrom(D, c, j, carry) ==
    IF j = 1 THEN [D EXCEPT ![1] = @ * c + carry]
    ELSE TimesFrom([D EXCEPT ![j] = (@ * c + carry) % Limb], c, j - 1,
                   (D[j] * c + carry) \div Limb)

\* x * c for a float x and an integer 0 < c < 2^12
FloatTimes(x, c) ==
    IF x.m[1] = 0 THEN x ELSE Round53(TimesFrom(x.m, c, 5, 0), x.e)

\* the integer made of the bits k, k+1, ... of the number with digits P
RECURSIVE IntFrom(_, _)
IntFrom(P, k) == IF k > 64 THEN 0 ELSE Bit(P, k) + 2 * IntFrom(P, k + 1)

\* f"{x:.2f}" as the integer number of hundredths it shows: the exact value
\* of the float x, times 100, rounded to the nearest integer, ties to even
\* (x < 2^53; the result has to fit an integer of the model)
Format2f(x) ==
    LET P == TimesFrom(x.m, 100, 5, 0)
        f == 0 - x.e
        ip == IntFrom(P, f)
        half == IF f >= 1 THEN Bit(P, f - 1) ELSE 0
        sticky == \E k \in 0..(f - 2) : Bit(P, k) = 1
    IN  IF half = 1 /\ (sticky \/ ip % 2 = 1) THEN ip + 1 ELSE ip

(***************************************************************************)
(* ping_url.py                                                             *)
(***************************************************************************)
VARIABLES
    argc,         \* len(sys.argv)
    n,            \* N, the attempt count handed to the sampler
    pc,           \* position of the script
    i,            \* loop variable of `for i in range(n)`
    times,        \* the list `times` of get_response_times_using_time
    attempts,     \* what the target did on each invocation so far
    stdout,       \* lines printed so far (the traceback of an uncaught
                  \* exception, which goes to stderr, is kept here too)
    exit_status   \* -1 while running, else the exit status of the process

pvars == <<argc, n, pc, i, times, attempts, stdout, exit_status>>

Durations == 1..MaxDur

\* state of latencies_test.py (described below)
VARIABLES
    current_timestamp,  \* host clock at the last tick (0: no tick yet)
    clock,              \* how the wall clock of the machine runs
    wall,               \* the last reading of the wall clock (0: none yet)
    create_timestamp,
    execute_timestamp,
    delay_timestamp,
    order_filled,
    orders,             \* the orders the host accepted; the index is the id
    storage,            \* what the failing save_to_csv calls meet: open()
                        \* raising, or the bytes the storage still takes
    file_exists,        \* os.path.exists(self.filename)
    file_rows,          \* the rows of the CSV file as csv.reader gives them:
                        \* a row is a sequence of fields, a field a sequence
                        \* of characters
    file_open,          \* the last row of the file is not terminated
    save_calls,         \* save_to_csv calls made
    save_returns,       \* save_to_csv calls that returned normally
    opens,              \* open() calls made by save_to_csv
    last,               \* outcome of the last callback
    schedule,           \* the instants at which the host calls on_tick
    hist                \* host clock at the first tick and at the last tick
                        \* on which on_tick acted, attempted a limit order,
                        \* attempted a market order (0: never)

svars == <<current_timestamp, clock, wall, create_timestamp,
           execute_timestamp, delay_timestamp, order_filled, orders, storage,
           file_exists, file_rows, file_open, save_calls, save_returns, opens,
           last, schedule, hist>>

vars == <<pvars, svars>>

Line(kind, val) == [kind |-> kind, val |-> val]

\* len(sys.argv) != 2
UsageError_lt(a) == a < 2
UsageError(a) == a # 2

\* for i in range(n): the loop body runs while i < n
InRange_le(k, m) == k <= m
InRange(k, m) == k < m

\* the value of i the loop goes on with after `continue` in the except clause
AfterFailure_break(k, m) == m
AfterFailure(k, m) == k + 1

\* lines printed by the except clause, which then skips the rest of the body
FailureOutput(k, m) == <<Line("error", k)>>

\* progress = ((i + 1) / n) * 100, printed as f"{progress:.2f}% done":
\* the value in hundredths of a percent
Progress(k, m) == Format2f(FloatTimes(FloatDiv(k + 1, m), 100))

\* statistics.median(times), in hundredths of a millisecond
Median100_upper(ts) ==
    LET s == Sorted(ts)
        l == Len(s)
    IN  100 * s[l \div 2 + 1]

Median100(ts) ==
    LET s == Sorted(ts)
        l == Len(s)
    IN  IF l % 2 = 1 THEN 100 * s[(l + 1) \div 2]
        ELSE 50 * (s[l \div 2] + s[l \div 2 + 1])

\* min(times), max(times)
Min(ts) == Sorted(ts)[1]
Max(ts) == Sorted(ts)[Len(ts)]

\* sum(times) / len(times) raises ZeroDivisionError when times is empty
StatisticsRaises(ts) == Len(ts) = 0

\* average = sum(times) / len(times), printed as f"{average:.2f}": the
\* value in hundredths of a millisecond
Average100(ts) == Format2f(FloatDiv(SumSeq(ts), Len(ts)))

\* the five lines print_statistics prints, values in hundredths of a ms
StatisticsLines(ts, m) ==
    << Line("header", m),
       Line("average", Average100(ts)),
       Line("median", Median100(ts)),
       Line("minimum", 100 * Min(ts)),
       Line("maximum", 100 * Max(ts)) >>

PingInit ==
    /\ argc \in 1..MaxArgc
    /\ n \in 1..MaxN
    /\ pc = "main"
    /\ i = 0
    /\ times = <<>>
    /\ attempts = <<>>
    /\ stdout = <<>>
    /\ exit_status = -1

\* __main__: wrong number of arguments
MainUsage ==
    /\ pc = "main"
    /\ UsageError(argc)
    /\ stdout' = Append(stdout, Line("usage", 0))
    /\ exit_status' = 1
    /\ pc' = "exit"
    /\ UNCHANGED <<argc, n, i, times, attempts>>
    /\ UNCHANGED svars

\* __main__: URL = sys.argv[1]; N = ...; call get_response_times_using_time
MainSample ==
    /\ pc = "main"
    /\ ~UsageError(argc)
    /\ times' = <<>>
    /\ i' = 0
    /\ pc' = "loop"
    /\ UNCHANGED <<argc, n, attempts, stdout, exit_status>>
    /\ UNCHANGED svars

\* loop head and time.sleep(1)
Sleep_none ==
    /\ pc = "loop"
    /\ InRange(i, n)
    /\ pc' = "request"
    /\ UNCHANGED <<argc, n, i, times, attempts, stdout, exit_status>>
    /\ UNCHANGED svars

Sleep ==
    /\ pc = "loop"
    /\ InRange(i, n)
    /\ pc' = "sleep"
    /\ UNCHANGED <<argc, n, i, times, attempts, stdout, exit_status>>
    /\ UNCHANGED svars

\* start_time = time.time(); requests.get(url) is sent
SendRequest ==
    /\ pc = "sleep"
    /\ pc' = "request"
    /\ UNCHANGED <<argc, n, i, times, attempts, stdout, exit_status>>
    /\ UNCHANGED svars

\* the request returned and raise_for_status() passed
RequestSucceeds ==
    /\ pc = "request"
    /\ \E d \in Durations :
        /\ attempts' = Append(attempts, [ok |-> TRUE, dur |-> d])
        /\ times' = Append(times, d)
    /\ stdout' = Append(stdout, Line("progress", Progress(i, n)))
    /\ i' = i + 1
    /\ pc' = "loop"
    /\ UNCHANGED <<argc, n, exit_status>>
    /\ UNCHANGED svars

\* requests.RequestException: print the error and continue
RequestFails ==
    /\ pc = "request"
    /\ attempts' = Append(attempts, [ok |-> FALSE, dur |-> 0])
    /\ stdout' = stdout \o FailureOutput(i, n)
    /\ i' = AfterFailure(i, n)
    /\ pc' = "loop"
    /\ UNCHANGED <<argc, n, times, exit_status>>
    /\ UNCHANGED svars

\* range(n) is exhausted: return times
ReturnTimes ==
    /\ pc = "loop"
    /\ ~InRange(i, n)
    /\ pc' = "stats"
    /\ UNCHANGED <<argc, n, i, times, attempts, stdout, exit_status>>
    /\ UNCHANGED svars

\* print_statistics(times, URL, N) on a non-empty list, then the script ends
PrintStatistics ==
    /\ pc = "stats"
    /\ ~StatisticsRaises(times)
    /\ stdout' = stdout \o StatisticsLines(times, n)
    /\ exit_status' = 0
    /\ pc' = "exit"
    /\ UNCHANGED <<argc, n, i, times, attempts>>
    /\ UNCHANGED svars

\* print_statistics raises ZeroDivisionError: uncaught, the interpreter
\* prints the traceback and exits with status 1
StatisticsCrash ==
    /\ pc = "stats"
    /\ StatisticsRaises(times)
    /\ stdout' = Append(stdout, Line("traceback", 0))
    /\ exit_status' = 1
    /\ pc' = "exit"
    /\ UNCHANGED <<argc, n, i, times, attempts>>
    /\ UNCHANGED svars

PingNext ==
    \/ MainUsage
    \/ MainSample
    \/ Sleep
    \/ SendRequest
    \/ RequestSucceeds
    \/ RequestFails
    \/ ReturnTimes
    \/ PrintStatistics
    \/ StatisticsCrash

(***************************************************************************)
(* latencies_test.py                                                       *)
(*                                                                         *)
(* The strategy runs inside the hummingbot host, which calls on_tick and   *)
(* the did_* callbacks one at a time (single-threaded), so every callback *)
(* is one atomic action. The host is the environment: it advances the     *)
(* clock, answers balance, price and budget queries, accepts orders and    *)
(* cancels, reports the active orders and delivers order events. An        *)
(* exception leaving a callback ends that callback only; the host goes on  *)
(* calling the strategy.                                                   *)
(***************************************************************************)
\* program constants (class attributes of LatencyTest)
create_interval == 30
execute_interval == 300
delay == 5
test_create_latency == TRUE
test_execute_latency == TRUE

\* bounds of the strategy model
\* number of save_to_csv calls that raise
MaxFailures == 1
\* the bytes a storage that runs full still takes from a save_to_csv call
MaxRoom == 4
\* the largest reading of a wall clock that need not advance
MaxTime == 1
\* largest balance and largest price the connector reports
MaxBalance == 1
\* largest amount the budget checker leaves to an order candidate
MaxAmount == 1

\* The host clock: the instants (in seconds) at which the host may call
\* on_tick. The host ticks at some instants of one schedule, in increasing
\* order; the schedules hold the first tick and the end of its delay, the
\* instants around the end of the delay and of the limit-order interval,
\* around the end of the first market-order interval, and just after the
\* first and the second market-order interval, all counted from FirstTick.
FirstTick == 1
TickTimes ==
    {FirstTick + x : x \in {0, delay - 1, delay,
                            create_interval, create_interval + 1}}
ShortTickTimes ==
    {FirstTick + x : x \in {0, delay}}
MidTickTimes ==
    {FirstTick + x : x \in {0, execute_interval, execute_interval + 1}}
LateTickTimes ==
    {FirstTick + x : x \in {0, execute_interval + 1,
                            2 * execute_interval + 2}}
Schedules == {ShortTickTimes, TickTimes, MidTickTimes, LateTickTimes}
Balances == 0..MaxBalance
Prices == 1..MaxBalance
Amounts == 0..MaxAmount

\* OrderState names
PENDING_CREATE == "PENDING_CREATE"
CREATED == "CREATED"
PENDING_CANCEL == "PENDING_CANCEL"
CANCELED == "CANCELED"
PENDING_EXECUTE == "PENDING_EXECUTE"
EXECUTED == "EXECUTED"

\* fieldnames = ['Timestamp', 'Order_ID', 'Status']; writer.writeheader()
Header == <<"Timestamp", "Order_ID", "Status">>

\* outcome of a callback: did it raise, the amount the budget checker
\* returned (-1: place_order was not called), the info message logged
Outcome(raised, amount, info) ==
    [raised |-> raised, amount |-> amount, info |-> info]

\* the characters of the names the program writes
Chars ==
    [Timestamp |-> <<"T", "i", "m", "e", "s", "t", "a", "m", "p">>,
     Order_ID |-> <<"O", "r", "d", "e", "r", "_", "I", "D">>,
     Status |-> <<"S", "t", "a", "t", "u", "s">>,
     PENDING_CREATE |-> <<"P", "E", "N", "D", "I", "N", "G", "_", "C", "R", "E", "A", "T", "E">>,
     CREATED |-> <<"C", "R", "E", "A", "T", "E", "D">>,
     PENDING_CANCEL |-> <<"P", "E", "N", "D", "I", "N", "G", "_", "C", "A", "N", "C", "E", "L">>,
     CANCELED |-> <<"C", "A", "N", "C", "E", "L", "E", "D">>,
     PENDING_EXECUTE |-> <<"P", "E", "N", "D", "I", "N", "G", "_", "E", "X", "E", "C", "U", "T", "E">>,
     EXECUTED |-> <<"E", "X", "E", "C", "U", "T", "E", "D">>]

DigitChars == <<"0", "1", "2", "3", "4", "5", "6", "7", "8", "9">>

\* str(v) for an integer v, as csv.writer writes it
RECURSIVE Str(_)
Str(v) ==
    IF v < 0 THEN <<"-">> \o Str(0 - v)
    ELSE IF v < 10 THEN <<DigitChars[v + 1]>>
    ELSE Str(v \div 10) \o <<DigitChars[(v % 10) + 1]>>

\* the line csv.writer writes for a row of three fields: the fields joined
\* by commas, then the line terminator "\r\n"
LineOf(fields) ==
    fields[1] \o <<",">> \o fields[2] \o <<",">> \o fields[3] \o <<"\r", "\n">>

HeaderFields == <<Chars[Header[1]], Chars[Header[2]], Chars[Header[3]]>>
RowFields(timestamp, order_id, status) ==
    <<Str(timestamp), Str(order_id), Chars[status]>>

\* the fields csv.reader finds in the characters cs of one line
Fields(cs) ==
    LET commas == {k \in 1..Len(cs) : cs[k] = ","}
        c == Cardinality(commas)
        cut == [j \in 0..(c + 1) |->
                   IF j = 0 THEN 0
                   ELSE IF j = c + 1 THEN Len(cs) + 1
                   ELSE CHOOSE k \in commas :
                            Cardinality({x \in commas : x < k}) = j - 1]
    IN  [j \in 1..(c + 1) |-> SubSeq(cs, cut[j - 1] + 1, cut[j] - 1)]

\* The file g = [rows, open] after the first w bytes of line are appended to
\* it. The bytes continue the last row when that row is not terminated; the
\* "\r" of the line terminator ends the row.
WriteLine(g, line, w) ==
    IF w = 0 THEN g
    ELSE LET body == Len(line) - 2
             fs == Fields(SubSeq(line, 1, IF w < body THEN w ELSE body))
             k == Len(g.rows)
             l == Len(g.rows[k])
         IN  [rows |-> IF g.open
                       THEN [g.rows EXCEPT ![k] =
                               SubSeq(@, 1, l - 1) \o <<@[l] \o fs[1]>>
                                   \o SubSeq(fs, 2, Len(fs))]
                       ELSE Append(g.rows, fs),
              open |-> w <= body]

\* room of a storage that takes every byte
Plenty == 2^20
\* room standing for a storage on which open() raises
OpenRaises == 0 - 1

\* save_to_csv on a file f = [exists, rows, open]. room: the bytes the
\* storage takes from this call, or OpenRaises. os.path.exists is asked
\* first; open(..., 'a') creates the file; the header line (for a file that
\* did not exist) and the row line are buffered and reach the storage when
\* the with block closes the file: the first room bytes are written, and the
\* call raises when that is not all of them. Returns the file after the
\* call, whether the call raised and the number of open() calls it made.
SaveToCsv(f, timestamp, order_id, status, room) ==
    LET head == IF f.exists THEN <<>> ELSE LineOf(HeaderFields)
        row == LineOf(RowFields(timestamp, order_id, status))
        w1 == IF room < Len(head) THEN room ELSE Len(head)
        w2 == IF room - w1 < Len(row) THEN room - w1 ELSE Len(row)
        g == WriteLine(WriteLine([rows |-> f.rows, open |-> f.open], head, w1),
                       row, w2)
    IN  IF room < 0
        THEN [exists |-> f.exists, rows |-> f.rows, open |-> f.open,
              raised |-> TRUE, opens |-> 1]
        ELSE [exists |-> TRUE, rows |-> g.rows, open |-> g.open,
              raised |-> room < Len(head) + Len(row), opens |-> 1]

File == [exists |-> file_exists, rows |-> file_rows, open |-> file_open]

Failures == save_calls - save_returns

\* The storage of a run fails in one way: Unset until the first failing
\* call, then the room that call met.
Unset == 0 - 2
FailingRooms ==
    {OpenRaises, 0, MaxRoom, Len(LineOf(HeaderFields)) + MaxRoom - 1}
Rooms == {Plenty} \cup (IF storage = Unset THEN FailingRooms ELSE {storage})

\* the callback's single save_to_csv call with result r: file and counters
\* after it; at most MaxFailures calls raise
Save(r, room) ==
    /\ r.raised => Failures < MaxFailures
    /\ file_exists' = r.exists
    /\ file_rows' = r.rows
    /\ file_open' = r.open
    /\ save_calls' = save_calls + 1
    /\ save_returns' = save_returns + (IF r.raised THEN 0 ELSE 1)
    /\ opens' = opens + r.opens
    /\ storage' = IF r.raised THEN room ELSE storage

NoSave ==
    UNCHANGED <<file_exists, file_rows, file_open, save_calls, save_returns,
                opens, storage>>

\* The wall clock: time.time() in milliseconds, truncated. Readings(c, w)
\* are the values the next reading can have after the reading w, on a
\* machine whose clock runs in the way c: every reading a millisecond after
\* the one before; any reading not earlier than the one before (the same
\* millisecond, or a later one); any reading at all (the clock can be set
\* back between two readings).
Clocks == {"advancing", "monotonic", "settable"}
Readings(c, w) ==
    IF c = "advancing" THEN {w + 1}
    ELSE IF c = "monotonic" THEN {t \in 0..MaxTime : t >= w}
    ELSE 0..MaxTime

\* the sequences of k readings taken one after the other, after the reading w
ReadingSeqs(c, w, k) ==
    IF c = "advancing" THEN {[j \in 1..k |-> w + j]}
    ELSE {ts \in [1..k -> 0..MaxTime] :
             \A j \in 1..k :
                 ts[j] \in Readings(c, IF j = 1 THEN w ELSE ts[j - 1])}

\* timestamp_now: int(time.time() * 1e3), a reading of the wall clock; the
\* values a use of self.timestamp_now can give in this state
timestamp_now == Readings(clock, wall)

\* The runs explored, each a schedule of the host and a wall clock: the
\* schedule of one order and its cancel with the clocks that need not
\* advance, the longer ones with the advancing clock.
Runs ==
    {<<sc, c>> \in Schedules \X Clocks :
        (sc = ShortTickTimes) <=> (c # "advancing")}

\* get_active_orders(connector_name): ids of the orders the host reports
\* active, in the order they were placed
RECURSIVE ActiveFrom(_, _)
ActiveFrom(os, k) ==
    IF k > Len(os) THEN <<>>
    ELSE (IF os[k].active THEN <<k>> ELSE <<>>) \o ActiveFrom(os, k + 1)

get_active_orders(os) == ActiveFrom(os, 1)

\* get_order_side: BUY when the base balance, in quote, is below the quote
\* balance, else SELL
get_order_side(base_balance, quote_balance, current_price) ==
    IF base_balance * current_price < quote_balance THEN "BUY" ELSE "SELL"

\* cancel_all_orders over the active orders ids: for each, read
\* timestamp_now, save the PENDING_CANCEL row, then ask the host to cancel.
\* env = [times, room]: the readings of timestamp_now, one for each order,
\* and the room the storage has once it fails; okc: number of saves that
\* find a storage with plenty of room. The first save that raises ends the
\* loop. acc = [file, orders, raised, calls, returns, opens].
RECURSIVE CancelLoop(_, _, _, _)
RECURSIVE CancelLoop_cancel_first(_, _, _, _)
CancelLoop_cancel_first(ids, acc, env, okc) ==
    IF ids = <<>> THEN acc
    ELSE LET o == Head(ids)
             r == SaveToCsv(acc.file,
                            env.times[acc.calls + 1],
                            o, PENDING_CANCEL,
                            IF okc > 0 THEN Plenty ELSE env.room)
         IN  IF r.raised
             THEN [acc EXCEPT !.file = [exists |-> r.exists, rows |-> r.rows,
                                        open |-> r.open],
                              !.raised = TRUE,
                              !.orders = [@ EXCEPT ![o].cancel_requested = TRUE],
                              !.calls = @ + 1,
                              !.opens = @ + r.opens]
             ELSE CancelLoop_cancel_first(Tail(ids),
                     [acc EXCEPT !.file = [exists |-> r.exists, rows |-> r.rows,
                                           open |-> r.open],
                                 !.orders = [@ EXCEPT ![o].cancel_requested = TRUE],
                                 !.calls = @ + 1,
                                 !.returns = @ + 1,
                                 !.opens = @ + r.opens],
                     env, okc - 1)

CancelLoop(ids, acc, env, okc) ==
    IF ids = <<>> THEN acc
    ELSE LET o == Head(ids)
             r == SaveToCsv(acc.file,
                            env.times[acc.calls + 1],
                            o, PENDING_CANCEL,
                            IF okc > 0 THEN Plenty ELSE env.room)
         IN  IF r.raised
             THEN [acc EXCEPT !.file = [exists |-> r.exists, rows |-> r.rows,
                                        open |-> r.open],
                              !.raised = TRUE,
                              !.calls = @ + 1,
                              !.opens = @ + r.opens]
             ELSE CancelLoop(Tail(ids),
                     [acc EXCEPT !.file = [exists |-> r.exists, rows |-> r.rows,
                                           open |-> r.open],
                                 !.orders = [@ EXCEPT ![o].cancel_requested = TRUE],
                                 !.calls = @ + 1,
                                 !.returns = @ + 1,
                                 !.opens = @ + r.opens],
                     env, okc - 1)

cancel_all_orders_log_only(os, env, okc) ==
    [CancelLoop(get_active_orders(os),
                [file |-> File, orders |-> os, raised |-> FALSE,
                 calls |-> 0, returns |-> 0, opens |-> 0],
                env, okc) EXCEPT !.orders = os]

cancel_all_orders(os, env, okc) ==
    CancelLoop(get_active_orders(os),
               [file |-> File, orders |-> os, raised |-> FALSE,
                calls |-> 0, returns |-> 0, opens |-> 0],
               env, okc)

\* What the host keeps of an order accepted by buy() or sell(): its type,
\* whether get_active_orders reports it, the creation event still to be
\* delivered for it, whether the strategy asked to cancel it and whether a
\* fill event was delivered for it.
NewOrder(type, side) ==
    [type |-> type,
     active |-> TRUE,
     to_deliver |-> IF side = "BUY" THEN "BuyOrderCreatedEvent"
                                    ELSE "SellOrderCreatedEvent",
     cancel_requested |-> FALSE,
     filled |-> FALSE]

\* candidate_adjusted.amount != Decimal("0")
ShouldSend_always(amount) == TRUE
ShouldSend(amount) == amount # 0

\* place_order(is_maker), with send_order_to_exchange: the host's answers
\* (balances, price, adjusted amount) are inputs. send_order_to_exchange
\* reads timestamp_now, sends the order and then saves the pending row.
place_order(is_maker) ==
    \E base_balance \in Balances, quote_balance \in Balances,
       current_price \in Prices, amount \in Amounts, room \in Rooms,
       time_before_order_sent \in timestamp_now :
        LET order_side == get_order_side(base_balance, quote_balance, current_price)
            order_type == IF is_maker THEN "LIMIT" ELSE "MARKET"
            order_id == Len(orders) + 1
            status == IF order_type = "LIMIT" THEN PENDING_CREATE ELSE PENDING_EXECUTE
            r == SaveToCsv(File, time_before_order_sent, order_id, status, room)
        IN  IF ShouldSend(amount)
            THEN /\ orders' = Append(orders, NewOrder(order_type, order_side))
                 /\ Save(r, room)
                 /\ wall' = time_before_order_sent
                 /\ last' = Outcome(r.raised, amount, FALSE)
            ELSE /\ orders' = orders
                 /\ NoSave
                 /\ wall' = wall
                 /\ last' = Outcome(FALSE, amount, TRUE)

StrategyInit ==
    /\ current_timestamp = 0
    /\ wall = 0
    /\ create_timestamp = 0
    /\ execute_timestamp = 0
    /\ delay_timestamp = 0
    /\ order_filled = FALSE
    /\ orders = <<>>
    /\ storage = Unset
    /\ file_exists = FALSE
    /\ file_rows = <<>>
    /\ file_open = FALSE
    /\ save_calls = 0
    /\ save_returns = 0
    /\ opens = 0
    /\ last = Outcome(FALSE, -1, FALSE)
    /\ \E run \in Runs : schedule = run[1] /\ clock = run[2]
    /\ hist = [first |-> 0, action |-> 0, limit |-> 0, market |-> 0]

\* The path on_tick takes at host time now; et is execute_timestamp after
\* its initialisation on the first tick.
Branch_early(now, et) ==
    IF now + 1 < delay_timestamp THEN "delay"
    ELSE IF get_active_orders(orders) # <<>> THEN "cancel"
    ELSE IF test_execute_latency /\ now > et THEN "market"
    ELSE IF test_create_latency /\ now > create_timestamp THEN "limit"
    ELSE "idle"

Branch_no_delay(now, et) ==
    IF get_active_orders(orders) # <<>> THEN "cancel"
    ELSE IF test_execute_latency /\ now > et THEN "market"
    ELSE IF test_create_latency /\ now > create_timestamp THEN "limit"
    ELSE "idle"

Branch_limit_first(now, et) ==
    IF now < delay_timestamp THEN "delay"
    ELSE IF get_active_orders(orders) # <<>> THEN "cancel"
    ELSE IF test_create_latency /\ now > create_timestamp THEN "limit"
    ELSE IF test_execute_latency /\ now > et THEN "market"
    ELSE "idle"

Branch_ge(now, et) ==
    IF now < delay_timestamp THEN "delay"
    ELSE IF get_active_orders(orders) # <<>> THEN "cancel"
    ELSE IF test_execute_latency /\ now >= et THEN "market"
    ELSE IF test_create_latency /\ now >= create_timestamp THEN "limit"
    ELSE "idle"

Branch_place_first(now, et) ==
    IF now < delay_timestamp THEN "delay"
    ELSE IF test_execute_latency /\ now > et THEN "market"
    ELSE IF test_create_latency /\ now > create_timestamp THEN "limit"
    ELSE IF get_active_orders(orders) # <<>> THEN "cancel"
    ELSE "idle"

Branch(now, et) ==
    IF now < delay_timestamp THEN "delay"
    ELSE IF get_active_orders(orders) # <<>> THEN "cancel"
    ELSE IF test_execute_latency /\ now > et THEN "market"
    ELSE IF test_create_latency /\ now > create_timestamp THEN "limit"
    ELSE "idle"

\* the host moves its clock to a later instant and calls on_tick
on_tick ==
    \E now \in schedule :
        /\ now > current_timestamp
        /\ current_timestamp' = now
        /\ UNCHANGED <<schedule, clock>>
        /\ LET et == IF execute_timestamp = 0
                     THEN now + execute_interval ELSE execute_timestamp
               branch == Branch(now, et)
               h == [hist EXCEPT !.first = IF @ = 0 THEN now ELSE @]
           IN  IF branch = "delay"
               THEN /\ execute_timestamp' = et
                    /\ last' = Outcome(FALSE, -1, FALSE)
                    /\ hist' = h
                    /\ NoSave
                    /\ UNCHANGED <<create_timestamp, delay_timestamp,
                                   order_filled, orders, wall>>
               ELSE IF branch = "cancel"
               THEN \E okc \in 0..Len(get_active_orders(orders)), room \in Rooms,
                       readings \in ReadingSeqs(clock, wall,
                                                Len(get_active_orders(orders))) :
                      LET r == cancel_all_orders(orders,
                                   [times |-> readings, room |-> room], okc)
                      IN  /\ r.raised => Failures < MaxFailures
                          /\ execute_timestamp' = et
                          /\ delay_timestamp' = now + delay
                          /\ orders' = r.orders
                          /\ file_exists' = r.file.exists
                          /\ file_rows' = r.file.rows
                          /\ file_open' = r.file.open
                          /\ storage' = IF r.raised THEN room ELSE storage
                          /\ save_calls' = save_calls + r.calls
                          /\ save_returns' = save_returns + r.returns
                          /\ opens' = opens + r.opens
                          /\ wall' = IF r.calls = 0 THEN wall ELSE readings[r.calls]
                          /\ last' = Outcome(r.raised, -1, FALSE)
                          /\ hist' = [h EXCEPT !.action = now]
                          /\ UNCHANGED <<create_timestamp, order_filled>>
               ELSE IF branch = "market"
               THEN /\ delay_timestamp' = now + delay
                    /\ execute_timestamp' = now + execute_interval
                    /\ order_filled' = FALSE
                    /\ place_order(FALSE)
                    /\ hist' = [h EXCEPT !.action = now, !.market = now]
                    /\ UNCHANGED create_timestamp
               ELSE IF branch = "limit"
               THEN /\ delay_timestamp' = now + delay
                    /\ create_timestamp' = now + create_interval
                    /\ execute_timestamp' = et
                    /\ place_order(TRUE)
                    /\ hist' = [h EXCEPT !.action = now, !.limit = now]
                    /\ UNCHANGED order_filled
               ELSE /\ execute_timestamp' = et
                    /\ last' = Outcome(FALSE, -1, FALSE)
                    /\ hist' = h
                    /\ NoSave
                    /\ UNCHANGED <<create_timestamp, delay_timestamp,
                                   order_filled, orders, wall>>
    /\ UNCHANGED pvars

\* did_create_buy_order and did_create_sell_order have the same body
DidCreate(o) ==
    \E room \in Rooms, t \in timestamp_now :
        LET r == SaveToCsv(File, t, o, CREATED, room)
        IN  /\ orders' = [orders EXCEPT ![o].to_deliver = "none"]
            /\ Save(r, room)
            /\ wall' = t
            /\ last' = Outcome(r.raised, -1, FALSE)
            /\ UNCHANGED <<current_timestamp, clock, create_timestamp,
                           execute_timestamp, delay_timestamp, order_filled,
                           schedule, hist>>

\* the host delivers BuyOrderCreatedEvent for a buy order it accepted
did_create_buy_order ==
    /\ \E o \in 1..Len(orders) : orders[o].to_deliver = "BuyOrderCreatedEvent" /\ DidCreate(o)
    /\ UNCHANGED pvars

\* the host delivers SellOrderCreatedEvent for a sell order it accepted
did_create_sell_order ==
    /\ \E o \in 1..Len(orders) : orders[o].to_deliver = "SellOrderCreatedEvent" /\ DidCreate(o)
    /\ UNCHANGED pvars

\* the host delivers OrderCancelledEvent for an active order the strategy
\* asked it to cancel
did_cancel_order ==
    /\ \E o \in 1..Len(orders), room \in Rooms, t \in timestamp_now :
        LET r == SaveToCsv(File, t, o, CANCELED, room)
        IN  /\ orders[o].active
            /\ orders[o].cancel_requested
            /\ orders' = [orders EXCEPT ![o].active = FALSE]
            /\ Save(r, room)
            /\ wall' = t
            /\ last' = Outcome(r.raised, -1, FALSE)
            /\ UNCHANGED <<current_timestamp, clock, create_timestamp,
                           execute_timestamp, delay_timestamp, order_filled,
                           schedule, hist>>
    /\ UNCHANGED pvars

\* the host delivers OrderFilledEvent for an active order (any number of
\* partial fills); a fill that completes the order ends its being active
did_fill_order ==
    /\ \E o \in 1..Len(orders), room \in Rooms, complete \in BOOLEAN,
          t \in timestamp_now :
        LET r == SaveToCsv(File, t, o, EXECUTED, room)
        IN  /\ orders[o].active
            /\ orders' = [orders EXCEPT ![o].filled = TRUE,
                                        ![o].active = ~complete]
            /\ IF ~order_filled
               THEN /\ Save(r, room)
                    /\ wall' = t
                    /\ order_filled' = ~r.raised
                    /\ last' = Outcome(r.raised, -1, FALSE)
               ELSE /\ room = Plenty
                    /\ NoSave
                    /\ wall' = wall
                    /\ order_filled' = order_filled
                    /\ last' = Outcome(FALSE, -1, FALSE)
            /\ UNCHANGED <<current_timestamp, clock, create_timestamp,
                           execute_timestamp, delay_timestamp, schedule, hist>>
    /\ UNCHANGED pvars

StrategyNext ==
    \/ on_tick
    \/ did_create_buy_order
    \/ did_create_sell_order
    \/ did_cancel_order
    \/ did_fill_order

\* the other program is not running
PingOff ==
    /\ argc = 1
    /\ n = 1
    /\ pc = "main"
    /\ i = 0
    /\ times = <<>>
    /\ attempts = <<>>
    /\ stdout = <<>>
    /\ exit_status = -1

StrategyStart == StrategyInit /\ PingOff

SpecStrategy == StrategyStart /\ [][StrategyNext]_vars

\* the ping utility, with the strategy not running
PingStart == PingInit /\ StrategyInit

SpecPing == PingStart /\ [][PingNext]_vars

(***************************************************************************)
(* Properties of ping_url.py                                               *)
(***************************************************************************)
\* the durations of the attempts that succeeded, in order
RECURSIVE SuccessDurations(_)
SuccessDurations(as) ==
    IF as = <<>> THEN <<>>
    ELSE IF Head(as).ok THEN <<Head(as).dur>> \o SuccessDurations(Tail(as))
    ELSE SuccessDurations(Tail(as))

AllFailed == \A k \in 1..Len(attempts) : ~attempts[k].ok
LinesOfKind(kind) == {k \in 1..Len(stdout) : stdout[k].kind = kind}
BatchOver == pc \in {"stats", "exit"} /\ ~UsageError(argc)

\* C1: a batch whose attempts all failed still ends the run successfully:
\* the script exits with status 0 and no traceback of an arithmetic error.
C1_AllFailedRunCompletes ==
    (pc = "exit" /\ ~UsageError(argc) /\ Len(attempts) = n /\ AllFailed)
        => (exit_status = 0 /\ LinesOfKind("traceback") = {})

\* C2: the target is invoked at most n times (the invocation in flight
\* included) and the sample list holds between 0 and n samples.
C2_AtMostNInvocations ==
    /\ Len(attempts) + (IF pc = "request" THEN 1 ELSE 0) <= n
    /\ Len(times) \in 0..n
    /\ Len(times) <= Len(attempts)

C2_Witness ==
    /\ pc = "stats"
    /\ Len(attempts) = n
    /\ Len(times) > 0
    /\ Len(times) < n

\* C3: a failed attempt records no sample and does not abort the batch:
\* once the batch is over all n attempts were made, the samples are exactly
\* the durations of the attempts that succeeded, and the statistics printed
\* are those of these samples.
C3_FailureIsNonFatal ==
    /\ times = SuccessDurations(attempts)
    /\ BatchOver => Len(attempts) = n
    /\ (BatchOver /\ pc = "exit" /\ exit_status = 0) =>
          /\ Len(stdout) >= 5
          /\ SubSeq(stdout, Len(stdout) - 4, Len(stdout)) =
                StatisticsLines(SuccessDurations(attempts), n)

C3_Witness ==
    /\ pc = "exit"
    /\ exit_status = 0
    /\ \E j, k \in 1..Len(attempts) : j < k /\ ~attempts[j].ok /\ attempts[k].ok

\* C4: one progress line is printed for every attempt made, whether the
\* attempt succeeded or failed, so a finished batch printed n of them.
C4_ProgressPerAttempt ==
    /\ Cardinality(LinesOfKind("progress")) = Len(attempts)
    /\ BatchOver => Cardinality(LinesOfKind("progress")) = n

\* C10: with zero arguments or more than one the script prints the usage
\* text, exits with status 1 and issues no request; with exactly one
\* argument it prints no usage text and samples (all n attempts are made
\* before it exits).
C10_SamplesOnlyWithOneArgument ==
    /\ (argc # 2 /\ pc # "main") =>
          /\ pc = "exit"
          /\ exit_status = 1
          /\ stdout = <<Line("usage", 0)>>
          /\ attempts = <<>>
    /\ argc # 2 => pc \in {"main", "exit"}
    /\ (argc = 2 /\ pc # "main") =>
          /\ pc \in {"loop", "sleep", "request", "stats", "exit"}
          /\ LinesOfKind("usage") = {}
          /\ pc = "exit" => Len(attempts) = n

C10_Witness == argc > 2 /\ pc = "exit" /\ exit_status = 1 /\ attempts = <<>>

\* the number of samples of ds that are at most v
AtMost(ds, v) == Cardinality({k \in 1..Len(ds) : ds[k] <= v})

\* the r-th smallest sample of ds (1 <= r <= Len(ds)), by counting
Ranked(ds, r) ==
    LET vals == {ds[k] : k \in 1..Len(ds)}
    IN  CHOOSE v \in vals :
            /\ AtMost(ds, v) >= r
            /\ \A u \in vals : u < v => AtMost(ds, u) < r

\* the value of the only printed line of a kind
Reported(kind) == stdout[CHOOSE k \in LinesOfKind(kind) : TRUE].val

AllSucceeded ==
    /\ Len(attempts) = n
    /\ \A k \in 1..n : attempts[k].ok

\* C11: when all n attempts succeed with durations d_1..d_n, the printed
\* average is their arithmetic mean (to the printed hundredth of a ms), the
\* printed median is their statistical median (the middle sample, or the
\* mean of the two middle samples), and the printed minimum and maximum are
\* their least and greatest sample.
C11_StatisticsOfSuccesses ==
    (pc = "exit" /\ ~UsageError(argc) /\ AllSucceeded) =>
        LET d == SuccessDurations(attempts)
            vals == {d[k] : k \in 1..n}
            avg == Reported("average")
        IN  /\ exit_status = 0
            /\ \A kind \in {"average", "median", "minimum", "maximum"} :
                   Cardinality(LinesOfKind(kind)) = 1
            /\ 2 * (100 * SumSeq(d) - avg * n) <= n
            /\ 2 * (avg * n - 100 * SumSeq(d)) <= n
            /\ Reported("median") =
                   50 * (Ranked(d, (n + 1) \div 2) + Ranked(d, n \div 2 + 1))
            /\ Reported("minimum") \div 100 \in vals
            /\ Reported("maximum") \div 100 \in vals
            /\ \A v \in vals : /\ Reported("minimum") <= 100 * v
                               /\ 100 * v <= Reported("maximum")

\* an even number of successes whose two middle samples differ
C11_Witness ==
    /\ pc = "exit"
    /\ exit_status = 0
    /\ AllSucceeded
    /\ n = 2
    /\ attempts[1].dur # attempts[2].dur

\* C12: the attempts of a batch are strictly sequential: a request is sent
\* only out of the inter-attempt delay, a delay starts only from the loop
\* head with every earlier request completed or failed (so none is in
\* flight), and requests are resolved one at a time by the step that ends
\* the request in flight.
C12_StrictlySequential ==
    [][ /\ (pc' = "request" /\ pc # "request") => pc = "sleep"
        /\ (pc' = "sleep" /\ pc # "sleep") =>
               (pc = "loop" /\ Len(attempts) = i)
        /\ Len(attempts') # Len(attempts) =>
               /\ pc = "request"
               /\ pc' = "loop"
               /\ Len(attempts') = Len(attempts) + 1
        /\ pc = "request" => Len(attempts) = i ]_vars

\* the request of the second attempt is in flight after the first resolved
C12_Witness ==
    /\ pc = "request"
    /\ Len(attempts) = 1
    /\ i = 1

(***************************************************************************)
(* Properties of latencies_test.py                                         *)
(***************************************************************************)
\* a row of the file is the header row
IsHeader(row) == row = HeaderFields

\* the timestamp a field holds: int(field) for a field of digits
RECURSIVE Number(_)
Number(field) ==
    IF field = <<>> THEN 0
    ELSE 10 * Number(SubSeq(field, 1, Len(field) - 1))
         + CHOOSE v \in 0..9 : DigitChars[v + 1] = field[Len(field)]

IsPrefix(s, t) == Len(s) <= Len(t) /\ SubSeq(t, 1, Len(s)) = s

\* the rows a step adds at the end of the file
Appended == SubSeq(file_rows', Len(file_rows) + 1, Len(file_rows'))

\* the header a step writes when it creates the file
HeaderWritten == IF file_exists' /\ ~file_exists THEN 1 ELSE 0

\* the rows of order o with the status: three fields, the identifier the
\* second and the status name the third
RowsOf(rows, o, status) ==
    {k \in 1..Len(rows) : /\ Len(rows[k]) = 3
                          /\ rows[k][3] = Chars[status]
                          /\ rows[k][2] = Str(o)}

CancelRequested(os) == {o \in 1..Len(os) : os[o].cancel_requested}

\* C5: the header is written exactly once, when the file is created: after
\* k >= 1 save_to_csv calls that returned, on an absent path, the file is
\* the header row followed by exactly k data rows, none of them a header;
\* before, there is no file.
C5_HeaderOnce ==
    /\ file_exists <=> save_returns >= 1
    /\ ~file_exists => file_rows = <<>>
    /\ file_exists =>
          /\ Len(file_rows) = save_returns + 1
          /\ IsHeader(file_rows[1])
          /\ \A k \in 2..Len(file_rows) : ~IsHeader(file_rows[k])

\* C6: the log is append-only: every step whose save_to_csv calls all
\* returned keeps the rows already written, unchanged and in order, and
\* adds one row at the end for each call (after the header, when the file
\* is created), also when the identifier already occurs in an earlier row.
C6_AppendOnly ==
    [][ (save_calls' - save_calls) = (save_returns' - save_returns) =>
          /\ IsPrefix(file_rows, file_rows')
          /\ Len(file_rows') - Len(file_rows) =
                (save_returns' - save_returns) + HeaderWritten
          /\ \A k \in 1..Len(Appended) :
                k > HeaderWritten => ~IsHeader(Appended[k]) ]_vars

\* C7: only the first fill event of an order is logged: as long as no
\* save_to_csv call has failed, the first fill event delivered for an order
\* writes an EXECUTED row for it, and no step adds an EXECUTED row for an
\* order that already has one, however the orders interleave.
C7_FirstFillOnly ==
    [][ save_calls' = save_returns' =>
          \A o \in 1..Len(orders) :
              /\ (~orders[o].filled /\ orders'[o].filled)
                    => RowsOf(Appended, o, EXECUTED) # {}
              /\ RowsOf(file_rows, o, EXECUTED) # {}
                    => RowsOf(Appended, o, EXECUTED) = {} ]_vars

\* C8: a tick on which the budget checker adjusts the amount to zero
\* raises nothing, sends no order and writes no row (no save_to_csv call
\* at all); it logs the informational message.
C8_ZeroAmountSkips ==
    [][ (current_timestamp' # current_timestamp /\ last'.amount = 0) =>
          /\ orders' = orders
          /\ file_rows' = file_rows
          /\ file_open' = file_open
          /\ file_exists' = file_exists
          /\ save_calls' = save_calls
          /\ wall' = wall
          /\ ~last'.raised
          /\ last'.info ]_vars

C8_Witness ==
    /\ last.amount = 0
    /\ last.info
    /\ delay_timestamp = current_timestamp + delay
    /\ orders # <<>>

\* C9: a save_to_csv call that fails makes one open() call and no more,
\* adds no row and leaves the file as it was (absent, if it was absent), and
\* raises out of the callback, which ends there: the cancel of the order
\* whose row was not written is not issued and did_fill_order does not set
\* order_filled. The rows written by the callback before the failure stay.
C9_FailedSaveAbortsCallback ==
    [][ (save_calls' - save_calls) > (save_returns' - save_returns) =>
          /\ (save_calls' - save_calls) = (save_returns' - save_returns) + 1
          /\ opens' - opens = save_calls' - save_calls
          /\ last'.raised
          /\ IsPrefix(file_rows, file_rows')
          /\ Len(file_rows') - Len(file_rows) =
                (save_returns' - save_returns) + HeaderWritten
          /\ (save_returns' = save_returns) =>
                /\ file_rows' = file_rows
                /\ file_open' = file_open
                /\ file_exists' = file_exists
          /\ Cardinality(CancelRequested(orders') \ CancelRequested(orders))
                <= save_returns' - save_returns
          /\ (current_timestamp' = current_timestamp) =>
                order_filled' = order_filled ]_vars


\* a step that is an on_tick invocation
Tick == current_timestamp' # current_timestamp

\* what an on_tick step is seen to do: cancel-all asks to cancel an order or
\* calls save_to_csv for it without reporting an amount; a placement attempt
\* reports the adjusted amount of its candidate
CancelsAll == Tick /\ last'.amount = -1 /\ save_calls' # save_calls
AttemptsOrder == Tick /\ last'.amount # -1
AttemptsMarket == AttemptsOrder /\ hist'.market = current_timestamp'
AttemptsLimit == AttemptsOrder /\ hist'.limit = current_timestamp'
Acts == CancelsAll \/ AttemptsOrder

\* C13: two consecutive actions of on_tick (cancel-all, market-order attempt,
\* limit-order attempt) are at least delay seconds of current_timestamp
\* apart: after an action at time t no tick with current_timestamp < t + delay
\* takes an action.
C13_ActionsDelayApart ==
    [][ /\ Acts => /\ hist.action = 0 \/ current_timestamp' >= hist.action + delay
                   /\ hist'.action = current_timestamp'
        /\ ~Acts => hist'.action = hist.action ]_vars

\* the second action is taken exactly delay seconds after the first, with a
\* tick inside the delay period in between
C13_Witness ==
    /\ hist.first > 0
    /\ hist.action = hist.first + delay
    /\ \E o \in 1..Len(orders) : orders[o].cancel_requested
    /\ \E o \in 1..Len(orders) : RowsOf(file_rows, o, PENDING_CANCEL) # {}

\* C14: an on_tick invocation takes at most one kind of action, with priority
\* cancel > market order > limit order: on a tick with active orders it
\* places no order and attempts none, outside the delay period it then only
\* cancels; on a tick that attempts a market order no limit order is
\* attempted, also when the limit-order interval has elapsed as well; and a
\* tick sends at most one order.
C14_OneKindOfAction ==
    [][ Tick =>
        /\ Len(orders') <= Len(orders) + 1
        /\ ~(CancelsAll /\ AttemptsOrder)
        /\ ~(AttemptsMarket /\ AttemptsLimit)
        /\ get_active_orders(orders) # <<>> =>
              /\ orders' = orders \/ CancelsAll
              /\ Len(orders') = Len(orders)
              /\ ~AttemptsOrder
              /\ current_timestamp' >= delay_timestamp => CancelsAll
        /\ CancelsAll => get_active_orders(orders) # <<>>
        /\ AttemptsMarket =>
              /\ create_timestamp' = create_timestamp
              /\ \A o \in Len(orders) + 1 .. Len(orders') :
                     orders'[o].type = "MARKET"
        /\ AttemptsLimit =>
              /\ ~(execute_timestamp # 0 /\ current_timestamp' > execute_timestamp)
              /\ \A o \in Len(orders) + 1 .. Len(orders') :
                     orders'[o].type = "LIMIT"
        /\ ( /\ current_timestamp' >= delay_timestamp
             /\ get_active_orders(orders) = <<>>
             /\ execute_timestamp # 0
             /\ current_timestamp' > execute_timestamp
             /\ current_timestamp' > create_timestamp ) =>
              (AttemptsMarket /\ ~AttemptsLimit) ]_vars

\* a market order was sent on a tick on which the limit-order interval had
\* elapsed as well
C14_Witness ==
    /\ hist.market = current_timestamp
    /\ hist.market > 0
    /\ create_timestamp < current_timestamp
    /\ Len(orders) > 0
    /\ orders[Len(orders)].type = "MARKET"
    /\ orders[Len(orders)].active

\* C15: orders of each kind are spaced by their interval: two successive
\* limit-order attempts are more than create_interval seconds apart, two
\* successive market-order attempts more than execute_interval seconds
\* apart, and the first market-order attempt comes later than
\* execute_interval seconds after the first tick.
C15_OrdersSpacedByInterval ==
    [][ /\ AttemptsLimit =>
              \/ hist.limit = 0
              \/ current_timestamp' - hist.limit > create_interval
        /\ AttemptsMarket =>
              /\ hist.first # 0
              /\ current_timestamp' - hist.first > execute_interval
              /\ \/ hist.market = 0
                 \/ current_timestamp' - hist.market > execute_interval
        /\ (Tick /\ ~AttemptsLimit) => hist'.limit = hist.limit
        /\ (Tick /\ ~AttemptsMarket) => hist'.market = hist.market
        /\ Tick => hist'.first = IF hist.first = 0 THEN current_timestamp'
                                 ELSE hist.first ]_vars

\* after a limit order on the first tick two market orders were sent, the
\* second one execute_interval + 1 seconds after the first
C15_Witness ==
    /\ Len(orders) = 3
    /\ orders[1].type = "LIMIT"
    /\ orders[2].type = "MARKET"
    /\ orders[3].type = "MARKET"
    /\ hist.market = hist.first + 2 * execute_interval + 2


\* the active orders of the state before the step
ActiveSet == {o \in 1..Len(orders) : orders[o].active}

\* the step writes the PENDING_CANCEL row of order o: as a new row of the
\* file, or joined to the cut row the file ended in
LogsPendingCancel(o) ==
    \E k \in (IF file_open THEN Len(file_rows) ELSE Len(file_rows) + 1)
                .. Len(file_rows') :
        /\ Len(file_rows'[k]) >= 3
        /\ file_rows'[k][Len(file_rows'[k])] = Chars[PENDING_CANCEL]
        /\ file_rows'[k][Len(file_rows'[k]) - 1] = Str(o)
        /\ k = Len(file_rows) => file_rows'[k] # file_rows[k]

\* the step issues cancel for order o
IssuesCancel(o) ==
    /\ orders'[o].cancel_requested
    /\ CancelsAll
    /\ ~last'.raised \/ ~orders[o].cancel_requested

\* a tick at or after delay_timestamp on which the host reports active orders
CancelTick ==
    /\ Tick
    /\ current_timestamp' >= delay_timestamp
    /\ ActiveSet # {}

\* C16 as stated: on the first tick at or after delay_timestamp on which the
\* host still reports an order active, cancel_all_orders writes a
\* PENDING_CANCEL row for it and issues its cancel.
C16_ActiveOrderCancelled ==
    [][ CancelTick =>
            \A o \in ActiveSet : LogsPendingCancel(o) /\ orders'[o].cancel_requested ]_vars

\* C16 amended: on such a tick cancel_all_orders writes the PENDING_CANCEL row
\* of every active order and then issues its cancel, unless save_to_csv
\* raises: then the tick ends with the exception and the order whose
\* save_to_csv call raised gets no cancel on this tick. A cancel is never
\* issued without its row, nor before the save_to_csv call for it returned.
C16_ActiveOrderCancelledUnlessSaveRaises ==
    [][ CancelTick =>
          /\ CancelsAll
          /\ ~last'.raised =>
                \A o \in ActiveSet : LogsPendingCancel(o) /\ IssuesCancel(o)
          /\ last'.raised =>
                \E o \in ActiveSet : ~IssuesCancel(o)
          /\ \A o \in ActiveSet :
                IssuesCancel(o) =>
                    LogsPendingCancel(o) /\ save_returns' > save_returns ]_vars

\* an order that stayed active was sent its cancel on the tick that ends the
\* delay period of a cancel-all aborted by a failing save_to_csv
C16_Witness ==
    /\ save_calls > save_returns
    /\ hist.action = current_timestamp
    /\ current_timestamp > hist.first + delay
    /\ Len(orders) = 1
    /\ orders[1].active
    /\ orders[1].cancel_requested
    /\ Cardinality(RowsOf(file_rows, 1, PENDING_CANCEL)) = 1
    /\ Len(file_rows) \in RowsOf(file_rows, 1, PENDING_CANCEL)

\* C17: on a tick inside the delay period (current_timestamp <
\* delay_timestamp) on_tick sends no order, issues no cancel, writes no log
\* row and leaves create_timestamp, delay_timestamp and order_filled
\* unchanged; it may only initialise execute_timestamp, once.
C17_DelayTickIsQuiet ==
    [][ (Tick /\ current_timestamp' < delay_timestamp) =>
          /\ orders' = orders
          /\ ~Acts
          /\ file_rows' = file_rows
          /\ file_open' = file_open
          /\ file_exists' = file_exists
          /\ save_calls' = save_calls
          /\ opens' = opens
          /\ wall' = wall
          /\ create_timestamp' = create_timestamp
          /\ delay_timestamp' = delay_timestamp
          /\ order_filled' = order_filled
          /\ \/ execute_timestamp' = execute_timestamp
             \/ /\ execute_timestamp = 0
                /\ execute_timestamp' = current_timestamp' + execute_interval ]_vars

\* the last tick fell inside the delay period of an earlier action, with an
\* order active that it did not cancel
C17_Witness ==
    /\ hist.action > 0
    /\ hist.action < current_timestamp
    /\ current_timestamp < delay_timestamp
    /\ \E o \in 1..Len(orders) : orders[o].active /\ ~orders[o].cancel_requested


Pendings == {PENDING_CREATE, PENDING_EXECUTE}
Confirmations == {CREATED, EXECUTED}

\* A row ends with one of the statuses: it is the row save_to_csv wrote
\* for that status, or such a row joined to the cut row a failed call left.
Ends(row, statuses) ==
    Len(row) >= 3 /\ \E st \in statuses : row[Len(row)] = Chars[st]

\* row k of the file ends with one of the statuses
HasStatus(k, statuses) == Ends(file_rows[k], statuses)

\* the fields of the order identifier and of the timestamp of such a row
OrderOf(row) == row[Len(row) - 1]
StampOf(row) == row[Len(row) - 2]

IsNumber(field) ==
    field # <<>> /\ \A x \in 1..Len(field) : \E v \in 1..10 : DigitChars[v] = field[x]

\* row k follows a row of the same order with one of the statuses
Follows(k, statuses) ==
    \E j \in 1..(k - 1) :
        /\ HasStatus(j, statuses)
        /\ OrderOf(file_rows[j]) = OrderOf(file_rows[k])

\* row k follows a row of the same order with one of the statuses and a
\* timestamp not greater than its own
Preceded(k, statuses) ==
    \E j \in 1..(k - 1) :
        /\ HasStatus(j, statuses)
        /\ OrderOf(file_rows[j]) = OrderOf(file_rows[k])
        /\ IsNumber(StampOf(file_rows[j]))
        /\ IsNumber(StampOf(file_rows[k]))
        /\ Number(StampOf(file_rows[j])) <= Number(StampOf(file_rows[k]))

\* no earlier row of the same order with one of the statuses has a
\* timestamp greater than that of row k
Timely(k, statuses) ==
    \A j \in 1..(k - 1) :
        ( /\ HasStatus(j, statuses)
          /\ OrderOf(file_rows[j]) = OrderOf(file_rows[k]) ) =>
            /\ IsNumber(StampOf(file_rows[j]))
            /\ IsNumber(StampOf(file_rows[k]))
            /\ Number(StampOf(file_rows[j])) <= Number(StampOf(file_rows[k]))

\* some row of the file, of the same order as row k, has one of the statuses
Logged(k, statuses) ==
    \E j \in 1..Len(file_rows) :
        HasStatus(j, statuses) /\ OrderOf(file_rows[j]) = OrderOf(file_rows[k])

\* no save_to_csv call has failed after it opened the file
NoCutRow == storage \in {Unset, OpenRaises}

\* C18 as stated: every confirmation row is preceded by a pending row of the
\* same order with a timestamp not greater than its own: CREATED and EXECUTED
\* by PENDING_CREATE or PENDING_EXECUTE, CANCELED by PENDING_CANCEL.
C18_ConfirmationAfterPending ==
    \A k \in 1..Len(file_rows) :
        /\ HasStatus(k, Confirmations) => Preceded(k, Pendings)
        /\ HasStatus(k, {CANCELED}) => Preceded(k, {PENDING_CANCEL})

\* C18 amended: every CANCELED row is preceded by the order's PENDING_CANCEL
\* row; a CREATED or EXECUTED row is preceded by the order's PENDING_CREATE
\* or PENDING_EXECUTE row whenever that row is in the file at all, and it is
\* in the file when no save_to_csv call has raised. A row counts also when
\* it was joined to the cut row of a failed call. The timestamp of the
\* earlier row is not greater when the wall clock was not set back and no
\* failed call left a cut row.
C18_ConfirmationAfterWrittenPending ==
    \A k \in 1..Len(file_rows) :
        /\ HasStatus(k, {CANCELED}) =>
              /\ Follows(k, {PENDING_CANCEL})
              /\ (clock # "settable" /\ NoCutRow) => Timely(k, {PENDING_CANCEL})
        /\ HasStatus(k, Confirmations) =>
              /\ Logged(k, Pendings) => Follows(k, Pendings)
              /\ save_calls = save_returns => Logged(k, Pendings)
              /\ (clock # "settable" /\ NoCutRow) => Timely(k, Pendings)

\* the file holds the whole lifecycle of order 1, and a CREATED row of order
\* 2 whose pending row was lost to a failing save_to_csv
C18_Witness ==
    /\ \A st \in {PENDING_CREATE, CREATED, EXECUTED, PENDING_CANCEL, CANCELED} :
           RowsOf(file_rows, 1, st) # {}
    /\ RowsOf(file_rows, 2, CREATED) # {}
    /\ RowsOf(file_rows, 2, PENDING_CREATE) = {}
    /\ RowsOf(file_rows, 2, PENDING_EXECUTE) = {}

\* C19: at any time at most one order placed by the strategy is active (sent
\* and not yet filled or cancelled), the host reporting an order as active
\* from the return of buy/sell until it is filled or cancelled.
C19_AtMostOneActiveOrder ==
    Cardinality({o \in 1..Len(orders) : orders[o].active}) <= 1

\* the third order is active after the first two ended, one of them while
\* its creation event was still to be delivered
C19_Witness ==
    /\ Len(orders) = 3
    /\ orders[3].active
    /\ ~orders[1].active
    /\ ~orders[2].active
    /\ \E o \in 1..2 : orders[o].to_deliver # "none"

====
